---------------------------- MODULE Spec2Model ----------------------------
(***************************************************************************)
(* A model of the dc-council-agent pipeline: identity normalisation and    *)
(* content hash (utils.py), the items store (db.py), the digest run's      *)
(* windowed query, scoring and ranking (digest.py) and the summary         *)
(* post-processor (summarizer_openai.py).                                  *)
(*                                                                         *)
(* Text is a sequence of one-character strings, so that lower-casing,      *)
(* whitespace collapsing, punctuation stripping, substring search and      *)
(* tokenisation are computed character by character as the code does.      *)
(***************************************************************************)
EXTENDS Integers, Sequences, FiniteSets, TLC

VARIABLES
    store,      \* the items table, in rowid order (db.py:16-26)
    now,        \* the wall clock, [d |-> day, s |-> time of day]
    call,       \* the insert_item call that has just returned
    cfg,        \* config.yaml as the running digest loaded it, or NULL
    dpc,        \* position of digest.main
    window_start, \* digest.main's cutoff string
    items,      \* rows returned by get_items_since, each with its score
    items_sorted, \* digest.main's ranked list
    h_in,       \* inputs of make_content_hash under SpecHash
    h_out,      \* its results
    s_in,       \* inputs of summarize_updates under SpecSumm
    s_out,      \* what it returned or raised
    subscribers, \* digest.main's subscribers list
    sub_i,      \* index of the subscriber a loop of digest.main is at
    summaries_by_email, \* digest.main's dict of bundles
    responses,  \* what the generation step answered for each subscriber
    sent,       \* the emails handed to SMTP, in order
    exit_code,  \* exit status of digest.main, NULL while it runs
    highlights, \* digest.main's highlights list
    sections,   \* digest.main's sections dict
    ccfg,       \* what a collector run was started with: program, keywords, batch
    cpc,        \* position of the collector run
    feed_i,     \* index of the feed or listing the run is at
    pending,    \* entries of the fetched payload not yet processed
    existing_hashes, \* collect.main's existing_hashes: whether it is a set, and the set
    last,       \* the entry processed last and what became of it
    conns,      \* each collector process's connection: position, calls left and made
    db_lock     \* the process whose connection holds the database's write lock

storeVars == <<store, now, call>>
rankVars == <<cfg, dpc, window_start, items, items_sorted, highlights, sections>>
hashVars == <<h_in, h_out>>
summVars == <<s_in, s_out>>
mailVars == <<subscribers, sub_i, summaries_by_email, responses, sent, exit_code>>
collectVars == <<ccfg, cpc, feed_i, pending, existing_hashes, last>>
lockVars == <<conns, db_lock>>

vars == <<storeVars, rankVars, hashVars, summVars, mailVars, collectVars, lockVars>>

\* None / SQL NULL
NULL == <<>>

-----------------------------------------------------------------------------
(* Characters *)

UpperSeq == <<"A","B","C","D","E","F","G","H","I","J","K","L","M",
              "N","O","P","Q","R","S","T","U","V","W","X","Y","Z">>
LowerSeq == <<"a","b","c","d","e","f","g","h","i","j","k","l","m",
              "n","o","p","q","r","s","t","u","v","w","x","y","z">>
Digits == {"0","1","2","3","4","5","6","7","8","9"}

Range(f) == {f[i] : i \in DOMAIN f}

UpperSet == Range(UpperSeq)
LowerAlnumSet == Range(LowerSeq) \cup Digits

IsUpper(c) == c \in UpperSet
IsLowerAlnum(c) == c \in LowerAlnumSet

\* The lower-case letter of each upper-case letter
LowerOf == [c \in UpperSet |-> LowerSeq[CHOOSE i \in DOMAIN UpperSeq : UpperSeq[i] = c]]

\* str.lower() on one character
LowerChar(c) == IF IsUpper(c) THEN LowerOf[c] ELSE c

\* str.lower()
Lower(t) == [i \in DOMAIN t |-> LowerChar(t[i])]

\* the regex class \s
IsSpace(c) == c \in {" ", "\t", "\n"}

\* the regex class \w: letters, digits and the underscore
IsWord(c) == IsUpper(c) \/ IsLowerAlnum(c) \/ c = "_"

\* str.strip()
RECURSIVE LStrip(_)
LStrip(t) == IF t # <<>> /\ IsSpace(Head(t)) THEN LStrip(Tail(t)) ELSE t

RECURSIVE RStrip(_)
RStrip(t) ==
    IF t # <<>> /\ IsSpace(t[Len(t)]) THEN RStrip(SubSeq(t, 1, Len(t) - 1)) ELSE t

Strip(t) == RStrip(LStrip(t))

\* re.sub(r"\s+", " ", t): every maximal run of whitespace becomes one space
RECURSIVE CollapseSpaces(_)
CollapseSpaces(t) ==
    IF t = <<>> THEN <<>>
    ELSE IF IsSpace(Head(t))
         THEN <<" ">> \o CollapseSpaces(LStrip(t))
         ELSE <<Head(t)>> \o CollapseSpaces(Tail(t))

\* re.sub(r"[^\w\s]", "", t): drop what is neither a word character nor space
RECURSIVE StripPunct(_)
StripPunct(t) ==
    IF t = <<>> THEN <<>>
    ELSE IF IsWord(Head(t)) \/ IsSpace(Head(t))
         THEN <<Head(t)>> \o StripPunct(Tail(t))
         ELSE StripPunct(Tail(t))

\* utils.normalize_text, in the order of its three statements
normalize_text(text) == StripPunct(CollapseSpaces(Strip(Lower(text))))

\* utils.make_content_hash.  SHA-256 is modelled as injective: the digest is
\* represented by the string it is taken of.
make_content_hash(title, url) ==
    normalize_text(title) \o <<"|", "|">> \o normalize_text(url)


-----------------------------------------------------------------------------
(* Timestamps as the strings the program stores and compares *)

\* The code points of the characters that decide a comparison of two
\* timestamp strings.
Ord(c) == CASE c = " " -> 32 [] c = "+" -> 43 [] c = "T" -> 84

\* SQLite's datetime('now'), "YYYY-MM-DD HH:MM:SS" (UTC): the date field, a
\* space, the time field.  Fixed-width digit fields compare as their numbers.
sqlite_datetime(t) == <<t.d, Ord(" "), t.s>>

\* datetime.isoformat() of an aware UTC datetime, "YYYY-MM-DDTHH:MM:SS+00:00"
isoformat(t) == <<t.d, Ord("T"), t.s, Ord("+")>>

\* utils.to_iso_datetime on a date the parser accepts
to_iso_datetime(t) == isoformat(t)

\* The instant a timestamp string of either format denotes
InstantOf(str) == [d |-> str[1], s |-> str[3]]

\* Chronological order of instants
TimeLeq(a, b) == a.d < b.d \/ (a.d = b.d /\ a.s <= b.s)

\* Byte-wise string order (SQLite's BINARY collation, Python's str order):
\* the first differing position decides, a proper prefix is smaller.
RECURSIVE StrLess(_, _)
StrLess(a, b) ==
    IF b = <<>> THEN FALSE
    ELSE IF a = <<>> THEN TRUE
    ELSE IF Head(a) # Head(b) THEN Head(a) < Head(b)
    ELSE StrLess(Tail(a), Tail(b))

StrGeq(a, b) == ~StrLess(a, b)

-----------------------------------------------------------------------------
(* Sample inputs *)

TitleHearing == <<"H","e","a","r","i","n","g">>
TitleHearingLoud == <<" ","H","E","A","R","I","N","G","!">>
TitleRentBill == <<"R","e","n","t"," ","b","i","l","l">>
TitleCommittee == <<"C","o","m","m","i","t","t","e","e">>
Titles == {TitleHearing, TitleHearingLoud, TitleRentBill, TitleCommittee}

UrlA == <<"x",".","i","o">>
UrlAUpper == <<"X",".","i","o">>
Urls == {UrlA, UrlAUpper}

FeedSources == {"granicus_rss", "google_alerts"}

\* The last time-of-day tick of a day
MaxTod == 1

\* digest.main: timedelta(days=7)
WINDOW_DAYS == 7

\* The instants at which a collector or the digest runs: every time of day of
\* a first day and of the day one window later.
Instants == [d : {0, WINDOW_DAYS}, s : 0..MaxTod]

\* Dates a feed gives for an entry
PublishedInstants == {[d |-> 0, s |-> 0]}

\* published_at of an adapter item: None, or to_iso_datetime of the feed's
\* date (collect.py:121-122)
PublishedValues == {NULL} \cup {to_iso_datetime(t) : t \in PublishedInstants}

\* The items the adapters hand to insert_item (collect.py:148-156)
AdapterItems ==
    {[source |-> src, title |-> t, url |-> u, published_at |-> p,
      content_hash |-> make_content_hash(t, u)] :
        src \in FeedSources, t \in Titles, u \in Urls, p \in PublishedValues}

KwRent == <<"r","e","n","t">>
KwBill == <<"B","I","L","L">>
KwZoning == <<"z","o","n","i","n","g">>

\* config.yaml as digest.main reads it
Configs ==
    {[source_weight |-> [granicus_rss |-> 3, youtube |-> 1],
      keywords |-> <<KwRent, KwBill>>, max_items |-> 1],
     [source_weight |-> [granicus_rss |-> 2, google_alerts |-> 2],
      keywords |-> <<KwZoning>>, max_items |-> 2],
     [source_weight |-> [granicus_rss |-> 0],
      keywords |-> <<>>, max_items |-> 0]}

-----------------------------------------------------------------------------
(* The items store (db.py) *)

\* init_db without idx_items_url
UniqueViolationHashOnly(table, item) ==
    \E i \in DOMAIN table : table[i].content_hash = item.content_hash

\* init_db without idx_items_hash
UniqueViolationUrlOnly(table, item) ==
    \E i \in DOMAIN table : table[i].url = item.url

\* The two unique indexes of init_db, idx_items_url and idx_items_hash: an
\* INSERT raises IntegrityError when either value is already in the table.
UniqueViolation(table, item) ==
    \E i \in DOMAIN table :
        \/ table[i].url = item.url
        \/ table[i].content_hash = item.content_hash

\* The row INSERT writes: the item's columns and the created_at default
NewRow(item, t) ==
    [source |-> item.source, title |-> item.title, url |-> item.url,
     published_at |-> item.published_at, content_hash |-> item.content_hash,
     created_at |-> sqlite_datetime(t)]

\* What a caller observes of an insert_item call: the identity of the item it
\* passed and the value returned
Returned(item, ret) ==
    [op |-> "insert", url |-> item.url, content_hash |-> item.content_hash,
     ret |-> ret]


\* insert_item as INSERT OR REPLACE: a colliding row is overwritten
insert_item_or_replace(item) ==
    IF UniqueViolation(store, item)
    THEN /\ store' = [i \in DOMAIN store |->
                        IF \/ store[i].url = item.url
                           \/ store[i].content_hash = item.content_hash
                        THEN NewRow(item, now) ELSE store[i]]
         /\ call' = Returned(item, TRUE)
    ELSE /\ store' = Append(store, NewRow(item, now))
         /\ call' = Returned(item, TRUE)

\* db.insert_item
insert_item(item) ==
    IF UniqueViolation(store, item)
    THEN /\ store' = store
         /\ call' = Returned(item, FALSE)
    ELSE /\ store' = Append(store, NewRow(item, now))
         /\ call' = Returned(item, TRUE)

\* COALESCE(published_at, created_at)
Coalesce(row) == IF row.published_at # NULL THEN row.published_at ELSE row.created_at

\* All orders of a finite set of rows
Orderings(S) ==
    {q \in [1..Cardinality(S) -> S] : \A i, j \in DOMAIN q : i # j => q[i] # q[j]}

\* db.get_items_since: WHERE COALESCE(...) >= ? ORDER BY COALESCE(...) DESC.
\* Both are string comparisons; SQL leaves the order of rows with equal sort
\* keys open, so every such order is a possible result.
get_items_since(table, iso_datetime) ==
    LET rows == {table[i] : i \in {k \in DOMAIN table :
                                      StrGeq(Coalesce(table[k]), iso_datetime)}}
    IN {q \in Orderings(rows) :
           \A i, j \in DOMAIN q : i < j => StrGeq(Coalesce(q[i]), Coalesce(q[j]))}

-----------------------------------------------------------------------------
(* Scoring and ranking (utils.py, digest.py) *)

\* Python's "k in t" for strings
IsSubstring(k, t) ==
    \E i \in 0..(Len(t) - Len(k)) : SubSeq(t, i + 1, i + Len(k)) = k

\* utils.contains_keywords
contains_keywords(title, keywords) ==
    LET t == Lower(title)
    IN \E n \in DOMAIN keywords : IsSubstring(Lower(keywords[n]), t)

WordCommittee == <<"c","o","m","m","i","t","t","e","e">>
WordHearing == <<"h","e","a","r","i","n","g">>

\* score_item adding the keyword bonus once per matching keyword
score_item_per_keyword(item, source_weight, keywords) ==
    LET s0 == IF item.source \in DOMAIN source_weight
              THEN source_weight[item.source] ELSE 0
        lowered == Lower(item.title)
        hits == {n \in DOMAIN keywords : IsSubstring(Lower(keywords[n]), lowered)}
        s1 == s0 + 2 * Cardinality(hits)
        s2 == IF \/ IsSubstring(WordCommittee, lowered)
                 \/ IsSubstring(WordHearing, lowered)
              THEN s1 + 1 ELSE s1
    IN s2

\* utils.score_item, statement by statement
score_item(item, source_weight, keywords) ==
    LET s0 == IF item.source \in DOMAIN source_weight
              THEN source_weight[item.source] ELSE 0
        s1 == IF contains_keywords(item.title, keywords) THEN s0 + 2 ELSE s0
        lowered == Lower(item.title)
        s2 == IF \/ IsSubstring(WordCommittee, lowered)
                 \/ IsSubstring(WordHearing, lowered)
              THEN s1 + 1 ELSE s1
    IN s2

\* digest.main:96-97, it["score"] = score_item(...) on the row's dict
Scored(row, s) ==
    [source |-> row.source, title |-> row.title, url |-> row.url,
     published_at |-> row.published_at, content_hash |-> row.content_hash,
     created_at |-> row.created_at, score |-> s]

\* The sort key of digest.main:101, compared as Python compares tuples:
\* (score, published_at or created_at or "")
RecencyKey(x) == IF x.published_at # NULL THEN x.published_at ELSE x.created_at

KeyLess(a, b) ==
    \/ a.score < b.score
    \/ a.score = b.score /\ StrLess(RecencyKey(a), RecencyKey(b))

\* sorted(..., reverse=True): descending and stable, an element goes after
\* every earlier element whose key is not smaller than its own.
RECURSIVE InsertDesc(_, _)
InsertDesc(sorted, x) ==
    IF sorted = <<>> THEN <<x>>
    ELSE IF KeyLess(Head(sorted), x) THEN <<x>> \o sorted
    ELSE <<Head(sorted)>> \o InsertDesc(Tail(sorted), x)

RECURSIVE SortedDesc(_)
SortedDesc(xs) ==
    IF xs = <<>> THEN <<>>
    ELSE InsertDesc(SortedDesc(SubSeq(xs, 1, Len(xs) - 1)), xs[Len(xs)])

Min(a, b) == IF a <= b THEN a ELSE b

\* xs[:k] for k >= 0
Prefix(xs, k) == SubSeq(xs, 1, Min(k, Len(xs)))

SectionOfficial == "Hearings & meetings (official)"
SectionVideos == "Videos & livestream replays"
SectionOther == "News mentions & other sources"
SectionNames == {SectionOfficial, SectionVideos, SectionOther}

\* The section of digest.main:110-115 with council_rss left to the last branch
SectionOfGranicusOnly(src) ==
    IF src = "granicus_rss" THEN SectionOfficial
    ELSE IF src = "youtube" THEN SectionVideos
    ELSE SectionOther

\* digest.main:110-115: the section an item's source puts it in
SectionOf(src) ==
    IF src \in {"granicus_rss", "council_rss"} THEN SectionOfficial
    ELSE IF src = "youtube" THEN SectionVideos
    ELSE SectionOther

\* digest.main:107-115: a walk over the ranked list, each item appended to
\* its section's list (a section nothing was appended to reads as empty)
RECURSIVE Sectioned(_, _)
Sectioned(acc, xs) ==
    IF xs = <<>> THEN acc
    ELSE Sectioned([acc EXCEPT ![SectionOf(Head(xs).source)] = Append(@, Head(xs))],
                   Tail(xs))

\* highlights taken from the official section first
HighlightsOfficialFirst(ranked, max_highlights) ==
    Prefix(SelectSeq(ranked, LAMBDA x : SectionOf(x.source) = SectionOfficial)
             \o SelectSeq(ranked, LAMBDA x : SectionOf(x.source) # SectionOfficial),
           max_highlights)

\* digest.main:105, highlights = items_sorted[:max_highlights]
Highlights(ranked, max_highlights) == Prefix(ranked, max_highlights)

\* now - timedelta(days=7)
WindowStart(t) == [d |-> t.d - WINDOW_DAYS, s |-> t.s]

-----------------------------------------------------------------------------
(* Actions of the store specification *)

\* No insert_item call has returned since the last run began
NoCall == [op |-> "none"]

\* A collector run inserts one adapter item (collect.main:349)
Insert(item) ==
    /\ dpc = "idle"
    /\ insert_item(item)
    /\ UNCHANGED <<now, rankVars, hashVars, summVars, mailVars, collectVars, lockVars>>

\* Time passes between runs
Tick(t) ==
    /\ dpc = "idle"
    /\ TimeLeq(now, t) /\ t # now
    /\ now' = t
    /\ call' = NoCall
    /\ UNCHANGED <<store, rankVars, hashVars, summVars, mailVars, collectVars, lockVars>>

\* digest.main:82-115: the window query, the scores, the ranked list, the
\* highlights and the sections.
\* The run reads the store once, here; a collector's later inserts cannot
\* reach it, so collectors are modelled as running between digest runs.
DigestRank ==
    /\ dpc = "idle"
    /\ cfg' \in Configs
    /\ call' = NoCall
    /\ LET ws == isoformat(WindowStart(now))
       IN /\ window_start' = ws
          /\ \E q \in get_items_since(store, ws) :
                \E scored \in {[i \in DOMAIN q |->
                                   Scored(q[i], score_item(q[i], cfg'.source_weight,
                                                           cfg'.keywords))]} :
                   \E ranked \in {SortedDesc(scored)} :
                      /\ items' = scored
                      /\ items_sorted' = ranked
                      /\ highlights' = Highlights(ranked, cfg'.max_items)
                      /\ sections' = Sectioned([n \in SectionNames |-> <<>>], ranked)
    /\ dpc' = "ranked"
    /\ UNCHANGED <<store, now, hashVars, summVars, mailVars, collectVars, lockVars>>

\* The rest of the run (modelled under SpecDigest) and the process's exit
DigestExit ==
    /\ dpc = "ranked"
    /\ dpc' = "idle"
    /\ cfg' = NULL /\ window_start' = NULL /\ items' = <<>> /\ items_sorted' = <<>>
    /\ highlights' = <<>> /\ sections' = NULL
    /\ UNCHANGED <<storeVars, hashVars, summVars, mailVars, collectVars, lockVars>>

\* No digest run in progress
DigestIdle ==
    /\ cfg = NULL /\ dpc = "idle"
    /\ window_start = NULL /\ items = <<>> /\ items_sorted = <<>>
    /\ highlights = <<>> /\ sections = NULL
    /\ subscribers = <<>> /\ sub_i = 0 /\ summaries_by_email = <<>>
    /\ responses = <<>> /\ sent = <<>> /\ exit_code = NULL

\* The variables of the function-level specifications, unused
NoFunctionCall ==
    /\ h_in = NULL /\ h_out = NULL
    /\ s_in = NULL /\ s_out = NULL

\* No collector run in progress
CollectIdle ==
    /\ ccfg = NULL /\ cpc = "idle" /\ feed_i = 0 /\ pending = <<>>
    /\ existing_hashes = [used |-> FALSE, set |-> {}] /\ last = NULL

\* No collector process is connected
LockIdle == conns = NULL /\ db_lock = "none"

\* A new database at the first instant
Init ==
    /\ store = <<>>
    /\ now = [d |-> 0, s |-> 0]
    /\ call = NoCall
    /\ DigestIdle
    /\ NoFunctionCall
    /\ CollectIdle
    /\ LockIdle

Next ==
    \/ \E item \in AdapterItems : Insert(item)
    \/ \E t \in Instants : Tick(t)
    \/ DigestRank
    \/ DigestExit

Spec == Init /\ [][Next]_vars

-----------------------------------------------------------------------------
(* Claims about the store *)

\* C1: after any sequence of insert calls the items table never holds two
\* rows with the same url, nor two rows with the same content hash.
C1_UniqueUrlAndHash ==
    \A i, j \in DOMAIN store :
        i # j => /\ store[i].url # store[j].url
                 /\ store[i].content_hash # store[j].content_hash

\* An insert of an item whose url is stored under another title was refused,
\* and an earlier insert had stored a second row.
C1_Witness ==
    /\ Len(store) = 2
    /\ call.op = "insert" /\ ~call.ret
    /\ \E i \in DOMAIN store :
          store[i].url = call.url /\ store[i].content_hash # call.content_hash

\* C2: insert_item returns True and appends exactly one row when no stored
\* row has the item's url or content hash; otherwise it returns False and
\* leaves the table as it was.
C2_InsertContract ==
    [][call'.op = "insert" =>
         LET known == \E i \in DOMAIN store :
                          \/ store[i].url = call'.url
                          \/ store[i].content_hash = call'.content_hash
         IN IF known
            THEN ~call'.ret /\ store' = store
            ELSE /\ call'.ret
                 /\ Len(store') = Len(store) + 1
                 /\ SubSeq(store', 1, Len(store)) = store
                 /\ store'[Len(store')].url = call'.url
                 /\ store'[Len(store')].content_hash = call'.content_hash]_vars

\* The same item (same url, same hash) was inserted a second time: the call
\* returned False and the table still holds the one row.
C2_Witness ==
    /\ Len(store) = 1
    /\ call.op = "insert" /\ ~call.ret
    /\ store[1].url = call.url /\ store[1].content_hash = call.content_hash

\* C20: a stored record keeps the field values it was inserted with and is
\* never deleted, no step of a digest run writes to the items table, and no
\* stored record carries the score of the ranking.
C20_StoredItemsImmutable ==
    [][/\ \A i \in DOMAIN store : i \in DOMAIN store' /\ store'[i] = store[i]
       /\ (dpc # "idle" \/ dpc' # "idle") => store' = store
       /\ \A i \in DOMAIN store' : "score" \notin DOMAIN store'[i]]_vars

\* A digest run has ranked and scored rows of a store that collectors filled
\* on two different days, the later insert coming after a refused one.
C20_Witness ==
    /\ dpc = "ranked"
    /\ Len(store) = 2 /\ store[1].created_at # store[2].created_at
    /\ \E i \in DOMAIN items : items[i].score > 0
    /\ \A i \in DOMAIN store : "score" \notin DOMAIN store[i]

-----------------------------------------------------------------------------
(* Claims about the digest's window, scores and ranking *)

\* The instant a row's coalesced timestamp denotes
RowInstant(row) == InstantOf(Coalesce(row))

\* C4: get_items_since returns exactly the stored rows whose coalesced
\* timestamp is chronologically at or after now minus seven days.
C4_WindowIsChronological ==
    dpc = "ranked" =>
        {items[i].url : i \in DOMAIN items} =
        {store[k].url : k \in {n \in DOMAIN store :
                                  TimeLeq(WindowStart(now), RowInstant(store[n]))}}

\* Position of a ranked row in the query result
PosInItems(x) == CHOOSE i \in DOMAIN items : items[i] = x

\* C5: the ranked list holds the in-window rows in descending order of score,
\* then of the instant of coalesce(published_at, created_at); rows equal in
\* both keep the order of the query result.
C5_RankedByScoreThenRecency ==
    dpc = "ranked" =>
        /\ Len(items_sorted) = Len(items)
        /\ Range(items_sorted) = Range(items)
        /\ \A i, j \in DOMAIN items_sorted :
              i < j =>
                LET a == items_sorted[i]
                    b == items_sorted[j]
                IN \/ a.score > b.score
                   \/ /\ a.score = b.score
                      /\ TimeLeq(RowInstant(b), RowInstant(a))
                      /\ RowInstant(a) = RowInstant(b) => PosInItems(a) < PosInItems(b)

\* The persisted columns of a ranked row
Persisted(x) ==
    [source |-> x.source, title |-> x.title, url |-> x.url,
     published_at |-> x.published_at, content_hash |-> x.content_hash,
     created_at |-> x.created_at]

\* Some keyword occurs somewhere in the title, letter case aside
SomeKeywordOccurs(title, keywords) ==
    \E k \in Range(keywords) :
        \E a \in 1..(Len(title) + 1) : \E b \in 0..Len(title) :
            Lower(SubSeq(title, a, b)) = Lower(k)

\* "committee" or "hearing" occurs somewhere in the title, letter case aside
LooksOfficial(title) ==
    \E a \in 1..(Len(title) + 1) : \E b \in 0..Len(title) :
        Lower(SubSeq(title, a, b)) \in {WordCommittee, WordHearing}

\* C6: a row's score is the weight of its source (0 when the table has none)
\* plus 2 if any keyword occurs in the title, plus 1 if the title contains
\* "committee" or "hearing"; scoring leaves the stored row's columns as they
\* are.
C6_ScoreFormula ==
    dpc = "ranked" =>
        \A i \in DOMAIN items_sorted :
            LET x == items_sorted[i]
                w == IF x.source \in DOMAIN cfg.source_weight
                     THEN cfg.source_weight[x.source] ELSE 0
            IN /\ x.score = w + (IF SomeKeywordOccurs(x.title, cfg.keywords) THEN 2 ELSE 0)
                              + (IF LooksOfficial(x.title) THEN 1 ELSE 0)
               /\ Persisted(x) \in Range(store)

\* A row whose title matches two keywords, from a weighted source, was scored
\* 3 + 2, and a row from a source the table lacks was scored without weight.
C6_Witness ==
    /\ dpc = "ranked"
    /\ cfg.keywords = <<KwRent, KwBill>>
    /\ \E i, j \in DOMAIN items_sorted :
          /\ items_sorted[i].title = TitleRentBill
          /\ items_sorted[i].source = "granicus_rss"
          /\ items_sorted[i].score = 5
          /\ items_sorted[j].title = TitleCommittee
          /\ items_sorted[j].source = "google_alerts"
          /\ items_sorted[j].score = 1

-----------------------------------------------------------------------------
(* The content hash as a function of its inputs *)

\* Longest title or url tried
MaxLen == 3

\* An upper-case letter, a lower-case letter, whitespace and punctuation
HashAlphabet == {"A", "a", " ", "!"}

Texts == UNION {[1..n -> HashAlphabet] : n \in 0..MaxLen}

\* make_content_hash(a, other) and make_content_hash(b, other)
HashTitles ==
    /\ h_out = NULL /\ h_in.which = "title"
    /\ h_out' = <<make_content_hash(h_in.a, h_in.other),
                  make_content_hash(h_in.b, h_in.other)>>
    /\ UNCHANGED <<storeVars, rankVars, h_in, summVars, mailVars, collectVars, lockVars>>

\* make_content_hash(other, a) and make_content_hash(other, b)
HashUrls ==
    /\ h_out = NULL /\ h_in.which = "url"
    /\ h_out' = <<make_content_hash(h_in.other, h_in.a),
                  make_content_hash(h_in.other, h_in.b)>>
    /\ UNCHANGED <<storeVars, rankVars, h_in, summVars, mailVars, collectVars, lockVars>>

InitHash ==
    /\ h_in \in [a : Texts, b : Texts, other : {TitleRentBill}, which : {"title", "url"}]
    /\ h_out = NULL
    /\ store = <<>> /\ now = [d |-> 0, s |-> 0] /\ call = NoCall
    /\ DigestIdle
    /\ CollectIdle
    /\ LockIdle
    /\ s_in = NULL /\ s_out = NULL

NextHash == HashTitles \/ HashUrls

SpecHash == InitHash /\ [][NextHash]_vars

\* What is left of a text once letter case, punctuation and the amount of
\* whitespace are set aside: its lower-cased words, one space apart
WordsOf(t) == Strip(CollapseSpaces(StripPunct(Lower(t))))

\* C3: two titles (or two urls) that differ only in letter case, in
\* whitespace and in punctuation have the same content hash.
C3_HashInsensitive ==
    (h_out # NULL /\ WordsOf(h_in.a) # <<>> /\ WordsOf(h_in.a) = WordsOf(h_in.b))
        => h_out[1] = h_out[2]

-----------------------------------------------------------------------------
(* The summary post-processor (summarizer_openai.py) *)

\* The em dash U+2014, one character of a bullet's text
EmDash == "--"

\* JSON values as json.loads returns them, tagged with what the code can do
\* with them: a key that is absent, a string, a list, or a value of another
\* type (null, a number), which has no .get and cannot be iterated.
Absent == [tag |-> "absent", val |-> <<>>]
Mistyped == [tag |-> "bad", val |-> <<>>]
Str(chars) == [tag |-> "str", val |-> chars]
List(elems) == [tag |-> "list", val |-> elems]

\* An element of a bullet's "sources": an int, or a value that is no int
Cite(n) == [int |-> TRUE, v |-> n]
NotAnInt == [int |-> FALSE, v |-> 0]

\* A bullet that is a JSON object, and one that is not
Bullet(text, sources) == [tag |-> "obj", text |-> text, sources |-> sources]
ScalarBullet == [tag |-> "scalar", text |-> Absent, sources |-> Absent]

\* str.startswith
StartsWith(t, prefix) ==
    Len(t) >= Len(prefix) /\ SubSeq(t, 1, Len(prefix)) = prefix

Drop(t, k) == SubSeq(t, k + 1, Len(t))

WordSource == <<"s","o","u","r","c","e">>

\* \s*:[^)]*\)\s*$ matched against all of r
NoteTail(r) ==
    LET a == LStrip(r)
    IN /\ a # <<>> /\ Head(a) = ":"
       /\ LET b == RStrip(Tail(a))
          IN /\ b # <<>> /\ b[Len(b)] = ")"
             /\ \A j \in 1..(Len(b) - 1) : b[j] # ")"

\* \((?:Sources?|Source)\s*:[^)]*\)\s*$ with IGNORECASE, matched at index i
IsSourceNoteAt(t, i) ==
    /\ t[i] = "("
    /\ LET r == Lower(Drop(t, i))
       IN /\ StartsWith(r, WordSource)
          /\ LET r6 == Drop(r, Len(WordSource))
             IN \/ NoteTail(r6)
                \/ r6 # <<>> /\ Head(r6) = "s" /\ NoteTail(Tail(r6))

\* summarize_updates:189, the re.sub that removes a trailing "(Source: ...)":
\* the leftmost match goes, with the whitespace before it.
StripSourceNote(t) ==
    LET at == {i \in DOMAIN t : IsSourceNoteAt(t, i)}
    IN IF at = {} THEN t
       ELSE RStrip(SubSeq(t, 1, (CHOOSE i \in at : \A j \in at : i <= j) - 1))

\* summarize_updates:188-190 on one bullet: str(bullet.get("text") or ""),
\* the source note removed, whitespace collapsed and stripped
CleanText(text) ==
    IF text.tag # "str" THEN <<>>
    ELSE Strip(CollapseSpaces(StripSourceNote(text.val)))

\* re.findall(r"[a-z0-9]+", ...): the maximal runs of lower-case letters and
\* digits, cur being the run in progress
RECURSIVE TokensOf(_, _)
TokensOf(t, cur) ==
    IF t = <<>> THEN (IF cur = <<>> THEN {} ELSE {cur})
    ELSE IF IsLowerAlnum(Head(t)) THEN TokensOf(Tail(t), Append(cur, Head(t)))
    ELSE (IF cur = <<>> THEN {} ELSE {cur}) \cup TokensOf(Tail(t), <<>>)

\* summarizer_openai._tokenize
tokenize(text) == TokensOf(Lower(text), <<>>)

\* summarizer_openai._lead: text.split(" -- ", 1)[0].strip()
lead(text) ==
    LET seps == {i \in 1..(Len(text) - 2) : SubSeq(text, i, i + 2) = <<" ", EmDash, " ">>}
    IN IF seps = {} THEN Strip(text)
       ELSE Strip(SubSeq(text, 1, (CHOOSE i \in seps : \A j \in seps : i <= j) - 1))

\* {s for s in b.get("sources", []) if isinstance(s, int)}
IntSources(sources) ==
    IF sources.tag # "list" THEN {}
    ELSE {sources.val[i].v : i \in {k \in DOMAIN sources.val : sources.val[k].int}}

\* _is_near_duplicate with the citation overlap left out of the test
is_near_duplicate_jaccard_only(candidate, kept) ==
    LET cand_tokens == tokenize(lead(candidate.text))
        kept_tokens == tokenize(lead(kept.text))
    IN IF cand_tokens = {} \/ kept_tokens = {} THEN "no"
       ELSE IF candidate.sources.tag = "bad" \/ kept.sources.tag = "bad" THEN "raise"
       ELSE IF 100 * Cardinality(cand_tokens \cap kept_tokens)
                  >= 62 * Cardinality(cand_tokens \cup kept_tokens)
            THEN "yes" ELSE "no"

\* summarizer_openai._is_near_duplicate: "yes", "no", or "raise" when a
\* "sources" value cannot be iterated.  The ratios are compared as the
\* fractions they are: i/u >= 0.62, i/u >= 0.45, o/m >= 0.8.
is_near_duplicate(candidate, kept) ==
    LET cand_tokens == tokenize(lead(candidate.text))
        kept_tokens == tokenize(lead(kept.text))
    IN IF cand_tokens = {} \/ kept_tokens = {} THEN "no"
       ELSE IF candidate.sources.tag = "bad" \/ kept.sources.tag = "bad" THEN "raise"
       ELSE
         LET intersection == Cardinality(cand_tokens \cap kept_tokens)
             union == Cardinality(cand_tokens \cup kept_tokens)
             cand_sources == IntSources(candidate.sources)
             kept_sources == IntSources(kept.sources)
             shared == Cardinality(cand_sources \cap kept_sources)
             smaller == Min(Cardinality(cand_sources), Cardinality(kept_sources))
             overlaps == /\ cand_sources # {} /\ kept_sources # {}
                         /\ 10 * shared >= 8 * smaller
         IN IF \/ 100 * intersection >= 62 * union
               \/ 100 * intersection >= 45 * union /\ overlaps
            THEN "yes" ELSE "no"

\* any(_is_near_duplicate(bullet, existing) for existing in deduped): the
\* kept bullets in order, stopping at the first True or the first exception
RECURSIVE AnyNearDuplicate(_, _)
AnyNearDuplicate(bullet, deduped) ==
    IF deduped = <<>> THEN "no"
    ELSE LET r == is_near_duplicate(bullet, Head(deduped))
         IN IF r = "no" THEN AnyNearDuplicate(bullet, Tail(deduped)) ELSE r

\* The loop of _dedupe_bullets from the state (raised, deduped) over bullets
RECURSIVE DedupeFrom(_, _)
DedupeFrom(acc, bullets) ==
    IF bullets = <<>> \/ acc.raised THEN acc
    ELSE LET bullet == Head(bullets)
             r == AnyNearDuplicate(bullet, acc.deduped)
         IN IF bullet.text = <<>> THEN DedupeFrom(acc, Tail(bullets))
            ELSE IF r = "raise" THEN [raised |-> TRUE, deduped |-> acc.deduped]
            ELSE IF r = "yes" THEN DedupeFrom(acc, Tail(bullets))
            ELSE DedupeFrom([raised |-> FALSE, deduped |-> Append(acc.deduped, bullet)],
                            Tail(bullets))

\* summarizer_openai._dedupe_bullets
dedupe_bullets(bullets) == DedupeFrom([raised |-> FALSE, deduped |-> <<>>], bullets)

\* The slice taken of the response's bullets before they are deduplicated
final_bullets_truncated_first(cleaned, deduped, max_bullets) ==
    dedupe_bullets(Prefix(cleaned, max_bullets)).deduped

\* summarize_updates:192, _dedupe_bullets(...)[:max_bullets]: cleaned is the
\* argument of _dedupe_bullets and deduped its value
final_bullets(cleaned, deduped, max_bullets) == Prefix(deduped, max_bullets)


\* The used-source set taken over every bullet of the response, not only
\* over the surviving ones
UsedSourcesOfAll(all, surviving, n) ==
    UNION {{v \in IntSources(all[i].sources) : 1 <= v /\ v <= n} : i \in DOMAIN all}

\* summarize_updates:195-199: the indexes in 1..n that a surviving bullet cites
UsedSources(all, surviving, n) ==
    UNION {{v \in IntSources(surviving[i].sources) : 1 <= v /\ v <= n} :
              i \in DOMAIN surviving}

\* summarize_updates:201-212: the entries of the numbered list from i on
\* whose number is used, in the list's order
RECURSIVE SourceEntries(_, _, _)
SourceEntries(i, n, used) ==
    IF i > n THEN <<>>
    ELSE IF i \in used THEN <<[n |-> i]>> \o SourceEntries(i + 1, n, used)
    ELSE SourceEntries(i + 1, n, used)

NoUpdatesText == <<"N","o"," ","u","p","d","a","t","e","s">>

Raised ==
    [status |-> "error", headline |-> Absent, bullets |-> <<>>, deduped |-> <<>>,
     sources |-> <<>>]

\* summarizer_openai.summarize_updates on n items, resp being what json.loads
\* makes of the generation step's text.  "deduped" is the value of
\* _dedupe_bullets before the slice.
summarize_updates(n, resp, max_bullets) ==
    IF n = 0
    THEN [status |-> "ok", headline |-> Str(NoUpdatesText), bullets |-> <<>>,
          deduped |-> <<>>, sources |-> <<>>]
    ELSE IF resp.kind # "object" THEN Raised
    ELSE IF resp.bullets.tag = "bad" THEN Raised
    ELSE
      LET raw == resp.bullets.val
      IN IF \E i \in DOMAIN raw : raw[i].tag # "obj" THEN Raised
         ELSE
           LET cleaned == [i \in DOMAIN raw |->
                              [text |-> CleanText(raw[i].text), sources |-> raw[i].sources]]
               d == dedupe_bullets(cleaned)
               kept == final_bullets(cleaned, d.deduped, max_bullets)
           IN IF d.raised THEN Raised
              ELSE IF \E i \in DOMAIN kept : kept[i].sources.tag = "bad" THEN Raised
              ELSE [status |-> "ok", headline |-> resp.headline, bullets |-> kept,
                    deduped |-> d.deduped,
                    sources |-> SourceEntries(1, n, UsedSources(cleaned, kept, n))]

-----------------------------------------------------------------------------
(* The post-processor on sample responses *)

TextTaxBillOk == <<"T","a","x"," ","b","i","l","l"," ","o","k"," ",EmDash," ","9"," ","t","o"," ","4">>
TextTaxBillOkNoted == <<"t","a","x"," "," ","b","i","l","l"," ","O","K"," ","(","S","o","u","r","c","e","s",":"," ","1",")">>
TextTaxBillDue == <<"T","a","x"," ","b","i","l","l"," ","d","u","e">>
TextTaxCut == <<"T","a","x"," ","c","u","t">>
HeadlineText == <<"T","a","x"," ","w","e","e","k">>

\* Bullets a generation step can return
SampleBullets ==
    {Bullet(Str(TextTaxBillOk), List(<<Cite(1)>>)),
     Bullet(Str(TextTaxBillOkNoted), List(<<Cite(1), Cite(2)>>)),
     Bullet(Str(TextTaxBillDue), List(<<Cite(1)>>)),
     Bullet(Str(TextTaxBillDue), List(<<Cite(2)>>)),
     Bullet(Str(TextTaxCut), List(<<Cite(9), NotAnInt>>)),
     Bullet(Str(TextTaxCut), List(<<>>)),
     Bullet(Str(<<>>), List(<<Cite(3)>>)),
     Bullet(Absent, Absent),
     Bullet(Str(TextTaxCut), Mistyped),
     ScalarBullet}

\* Longest "bullets" list of a response
MaxBulletsIn == 3

\* Largest max_bullets passed (digest.main passes 3)
MaxCap == 3

BulletLists == UNION {[1..k -> SampleBullets] : k \in 0..MaxBulletsIn}

Response(kind, headline, bullets) ==
    [kind |-> kind, headline |-> headline, bullets |-> bullets]

\* What json.loads makes of the generation step's text: nothing (not JSON),
\* a value that is no object, or an object with or without a well-typed
\* headline and bullets
Responses ==
    {Response("invalid", Absent, Absent), Response("scalar", Absent, Absent)}
    \cup {Response("object", Str(HeadlineText), List(l)) : l \in BulletLists}
    \cup {Response("object", h, b) :
            h \in {Absent, Mistyped, Str(HeadlineText)},
            b \in {Absent, Mistyped, List(<<Bullet(Str(TextTaxCut), List(<<Cite(1)>>))>>)}}

\* summarize_updates returns
SummarizeOk ==
    /\ s_out = NULL
    /\ summarize_updates(s_in.n, s_in.resp, s_in.max_bullets).status = "ok"
    /\ s_out' = summarize_updates(s_in.n, s_in.resp, s_in.max_bullets)
    /\ UNCHANGED <<storeVars, rankVars, hashVars, s_in, mailVars, collectVars, lockVars>>

\* summarize_updates raises
SummarizeRaise ==
    /\ s_out = NULL
    /\ summarize_updates(s_in.n, s_in.resp, s_in.max_bullets).status = "error"
    /\ s_out' = Raised
    /\ UNCHANGED <<storeVars, rankVars, hashVars, s_in, mailVars, collectVars, lockVars>>

\* With no items summarize_updates returns before any generation call
SummInputs ==
    [n : {2, 3}, resp : Responses, max_bullets : 0..MaxCap]
    \cup [n : {0}, resp : {Response("invalid", Absent, Absent)}, max_bullets : 0..MaxCap]

InitSumm ==
    /\ s_in \in SummInputs
    /\ s_out = NULL
    /\ store = <<>> /\ now = [d |-> 0, s |-> 0] /\ call = NoCall
    /\ DigestIdle
    /\ CollectIdle
    /\ LockIdle
    /\ h_in = NULL /\ h_out = NULL

NextSumm == SummarizeOk \/ SummarizeRaise

SpecSumm == InitSumm /\ [][NextSumm]_vars

-----------------------------------------------------------------------------
(* Claims about the post-processor *)

\* The response's bullets as _dedupe_bullets receives them
DedupeInput ==
    [i \in DOMAIN s_in.resp.bullets.val |->
        [text |-> CleanText(s_in.resp.bullets.val[i].text),
         sources |-> s_in.resp.bullets.val[i].sources]]

\* The bullets of B at the indexes K, in B's order, from index i on
RECURSIVE PickFrom(_, _, _)
PickFrom(B, K, i) ==
    IF i > Len(B) THEN <<>>
    ELSE IF i \in K THEN <<B[i]>> \o PickFrom(B, K, i + 1)
    ELSE PickFrom(B, K, i + 1)

\* The rule of the claim: Jaccard similarity of the lead-clause token sets
\* >= 0.62, or >= 0.45 with a citation overlap >= 0.8
NearDuplicates(a, b) ==
    LET ta == tokenize(lead(a.text))
        tb == tokenize(lead(b.text))
        ca == IntSources(a.sources)
        cb == IntSources(b.sources)
        both == Cardinality(ta \cap tb)
        all == Cardinality(ta \cup tb)
    IN /\ ta # {} /\ tb # {}
       /\ \/ 100 * both >= 62 * all
          \/ /\ 100 * both >= 45 * all
             /\ ca # {} /\ cb # {}
             /\ 10 * Cardinality(ca \cap cb) >= 8 * Min(Cardinality(ca), Cardinality(cb))

\* C7 as stated: the deduplicated list is the subsequence of the input in
\* which a bullet is dropped exactly when it is a near-duplicate of an
\* earlier kept bullet.
C7_DroppedIffNearDuplicate ==
    (s_out # NULL /\ s_out.status = "ok" /\ s_in.n > 0) =>
        \E K \in SUBSET DOMAIN DedupeInput :
            /\ s_out.deduped = PickFrom(DedupeInput, K, 1)
            /\ \A i \in DOMAIN DedupeInput :
                  i \notin K <=>
                    \E k \in K : k < i /\ NearDuplicates(DedupeInput[i], DedupeInput[k])

\* C7, amended: a bullet is dropped exactly when its text is empty or it is
\* a near-duplicate of an earlier kept bullet; the kept bullets keep their
\* order.
C7_GreedyDedup ==
    (s_out # NULL /\ s_out.status = "ok" /\ s_in.n > 0) =>
        \E K \in SUBSET DOMAIN DedupeInput :
            /\ s_out.deduped = PickFrom(DedupeInput, K, 1)
            /\ \A i \in DOMAIN DedupeInput :
                  i \notin K <=>
                    \/ DedupeInput[i].text = <<>>
                    \/ \E k \in K : k < i /\ NearDuplicates(DedupeInput[i], DedupeInput[k])

\* Three bullets came in: the first was kept, one with empty text was
\* dropped, and one was dropped for a Jaccard similarity of 0.5 with the same
\* citation as the first.
C7_Witness ==
    /\ s_out # NULL /\ s_out.status = "ok" /\ s_in.n > 0
    /\ Len(DedupeInput) = 3
    /\ Len(s_out.deduped) = 1
    /\ s_out.deduped[1] = DedupeInput[1]
    /\ \E i, j \in 2..3 :
          /\ DedupeInput[i].text = <<>>
          /\ DedupeInput[j].text = TextTaxBillDue
          /\ DedupeInput[j].sources = DedupeInput[1].sources

\* The int elements of a surviving bullet's "sources"
CitedBy(bullet) ==
    IF bullet.sources.tag # "list" THEN {}
    ELSE {e.v : e \in {x \in Range(bullet.sources.val) : x.int}}

\* C8: the emitted sources are exactly the entries of the numbered list that
\* some surviving bullet cites, under their own numbers, in ascending order.
C8_SourcesAreCitedOnes ==
    (s_out # NULL /\ s_out.status = "ok") =>
        /\ {s_out.sources[i].n : i \in DOMAIN s_out.sources} =
           {v \in 1..s_in.n : \E i \in DOMAIN s_out.bullets : v \in CitedBy(s_out.bullets[i])}
        /\ \A i, j \in DOMAIN s_out.sources :
              i < j => s_out.sources[i].n < s_out.sources[j].n

\* Source 2 was cited by a bullet of the response that did not survive, and
\* the emitted list holds source 1 alone.
C8_Witness ==
    /\ s_out # NULL /\ s_out.status = "ok" /\ s_in.n = 3
    /\ \E i \in DOMAIN DedupeInput : 2 \in IntSources(DedupeInput[i].sources)
    /\ s_out.bullets # <<>>
    /\ s_out.sources = <<[n |-> 1]>>

\* C9: every surviving bullet of a returned summary cites at least one source
\* index, and every index it cites is the number of an emitted source.
C9_CitationsValid ==
    (s_out # NULL /\ s_out.status = "ok") =>
        \A i \in DOMAIN s_out.bullets :
            /\ CitedBy(s_out.bullets[i]) # {}
            /\ CitedBy(s_out.bullets[i]) \subseteq
                  {s_out.sources[k].n : k \in DOMAIN s_out.sources}

-----------------------------------------------------------------------------
(* digest.main after ranking: subscribers, summaries, sends *)

\* digest.main:118: items_sorted[:40]
TOP_FOR_AI == 40

\* digest.main:152: max_bullets=3
DIGEST_MAX_BULLETS == 3

top_for_ai == SubSeq(items_sorted, 1, Min(Len(items_sorted), TOP_FOR_AI))

\* email_cfg["subject_prefix"] with the window's dates
FallbackSubject == <<"D","C"," ","w","e","e","k","l","y">>

\* digest.main:177, (ai_summary or {}).get("headline") or fallback_subject.
\* An absent headline stands for a missing key or a falsy value (null, "", 0),
\* a mistyped one for a truthy value that is no string; the latter is passed
\* on as the subject and makes build_plain_text and EmailMessage raise.
Subject(headline) ==
    IF headline.tag = "str" /\ headline.val # <<>>
    THEN [kind |-> "headline", text |-> headline.val]
    ELSE IF headline.tag = "bad"
         THEN [kind |-> "bad", text |-> <<>>]
         ELSE [kind |-> "fallback", text |-> FallbackSubject]

\* digest.main:170-174: every emitted source has a number and a url
source_url_map(sources) == {sources[i].n : i \in DOMAIN sources}

\* digest.main:179-183: what summaries_by_email holds for one subscriber, the
\* interest notice being added when the subscriber names no interests
Bundle(sub, r) ==
    [ai_summary |-> [headline |-> r.headline, bullets |-> r.bullets,
                     sources |-> r.sources, interest_notice |-> ~sub.interests],
     source_url_map |-> source_url_map(r.sources),
     subject |-> Subject(r.headline)]

\* dict[k] = v
Put(f, k, v) == [e \in (DOMAIN f) \cup {k} |-> IF e = k THEN v ELSE f[e]]

\* The generation step was not asked (summarize_updates:87-92)
NoResponse == Response("none", Absent, Absent)

\* What send_email_gmail_smtp hands to SMTP
Mail(sub, bundle) ==
    [to |-> sub.email, subject |-> bundle.subject, ai_summary |-> bundle.ai_summary]

\* Most subscribers of a run
MaxSubs == 2

Subscribers ==
    {[email |-> "a@dc", interests |-> FALSE], [email |-> "b@dc", interests |-> TRUE]}

\* What get_active_subscribers_from_apps_script returns, or the one test
\* recipient of TEST_ONLY_MODE
SubscriberLists == UNION {[1..k -> Subscribers] : k \in 0..MaxSubs}

TheBullet == Bullet(Str(TextTaxCut), List(<<Cite(1)>>))

\* Responses of the generation step: one of the expected structure, and one
\* for each way of deviating from it
DigestResponses ==
    {Response("object", Str(HeadlineText), List(<<TheBullet>>)),
     Response("invalid", Absent, Absent),
     Response("scalar", Absent, Absent),
     Response("object", Absent, List(<<TheBullet>>)),
     Response("object", Mistyped, List(<<TheBullet>>)),
     Response("object", Str(HeadlineText), Absent),
     Response("object", Str(HeadlineText), Mistyped),
     Response("object", Str(HeadlineText), List(<<Bullet(Absent, List(<<Cite(1)>>))>>)),
     Response("object", Str(HeadlineText), List(<<Bullet(Str(TextTaxCut), Absent)>>))}

\* digest.main:126-137
DigestSubscribers(subs) ==
    /\ dpc = "ranked"
    /\ IF subs = <<>>
       THEN /\ dpc' = "done" /\ exit_code' = 0
            /\ UNCHANGED <<subscribers, sub_i>>
       ELSE /\ dpc' = "summarizing" /\ subscribers' = subs /\ sub_i' = 1
            /\ UNCHANGED exit_code
    /\ UNCHANGED <<storeVars, cfg, window_start, items, items_sorted, highlights,
                   sections, hashVars, summVars, collectVars, lockVars, summaries_by_email, responses, sent>>

\* A loop that sends each subscriber's email as soon as their summary is
\* generated
DigestSummarizedSendingEach(resp) ==
    /\ dpc = "summarizing"
    /\ LET sub == subscribers[sub_i]
           n == Len(top_for_ai)
           r == summarize_updates(n, resp, DIGEST_MAX_BULLETS)
       IN /\ r.status = "ok"
          /\ n = 0 => resp = NoResponse
          /\ n # 0 => resp # NoResponse
          /\ summaries_by_email' = Put(summaries_by_email, sub.email, Bundle(sub, r))
          /\ responses' = Put(responses, sub.email, resp)
          /\ sent' = Append(sent, Mail(sub, Bundle(sub, r)))
    /\ IF sub_i < Len(subscribers)
       THEN sub_i' = sub_i + 1 /\ dpc' = dpc
       ELSE sub_i' = 1 /\ dpc' = "sending"
    /\ UNCHANGED <<storeVars, cfg, window_start, items, items_sorted, highlights,
                   sections, hashVars, summVars, collectVars, lockVars, subscribers, exit_code>>

\* digest.main:139-183, one turn of the loop in which summarize_updates
\* returns
DigestSummarized(resp) ==
    /\ dpc = "summarizing"
    /\ LET sub == subscribers[sub_i]
           n == Len(top_for_ai)
           r == summarize_updates(n, resp, DIGEST_MAX_BULLETS)
       IN /\ r.status = "ok"
          /\ n = 0 => resp = NoResponse
          /\ n # 0 => resp # NoResponse
          /\ summaries_by_email' = Put(summaries_by_email, sub.email, Bundle(sub, r))
          /\ responses' = Put(responses, sub.email, resp)
    /\ IF sub_i < Len(subscribers)
       THEN sub_i' = sub_i + 1 /\ dpc' = dpc
       ELSE sub_i' = 1 /\ dpc' = "sending"
    /\ UNCHANGED <<storeVars, cfg, window_start, items, items_sorted, highlights,
                   sections, hashVars, summVars, collectVars, lockVars, subscribers, sent, exit_code>>

\* digest.main:154-157: summarize_updates raises, the run returns 1
DigestSummaryError(resp) ==
    /\ dpc = "summarizing"
    /\ Len(top_for_ai) # 0 /\ resp # NoResponse
    /\ summarize_updates(Len(top_for_ai), resp, DIGEST_MAX_BULLETS).status = "error"
    /\ dpc' = "done" /\ exit_code' = 1
    /\ UNCHANGED <<storeVars, cfg, window_start, items, items_sorted, highlights,
                   sections, hashVars, summVars, collectVars, lockVars, subscribers, sub_i, summaries_by_email, responses, sent>>

\* digest.main:198-234, one turn of the send loop that hands the email to
\* SMTP; after the last one the run returns 0
DigestSend ==
    /\ dpc = "sending"
    /\ LET sub == subscribers[sub_i]
           bundle == summaries_by_email[sub.email]
       IN /\ bundle.subject.kind # "bad"
          /\ sent' = Append(sent, Mail(sub, bundle))
    /\ IF sub_i < Len(subscribers)
       THEN sub_i' = sub_i + 1 /\ dpc' = dpc /\ exit_code' = exit_code
       ELSE sub_i' = sub_i /\ dpc' = "done" /\ exit_code' = 0
    /\ UNCHANGED <<storeVars, cfg, window_start, items, items_sorted, highlights,
                   sections, hashVars, summVars, collectVars, lockVars, subscribers, summaries_by_email, responses>>

\* A subject that is no string makes build_plain_text raise (digest.py:41);
\* nothing catches it and the process ends with status 1
DigestSendTypeError ==
    /\ dpc = "sending"
    /\ summaries_by_email[subscribers[sub_i].email].subject.kind = "bad"
    /\ dpc' = "done" /\ exit_code' = 1
    /\ UNCHANGED <<storeVars, cfg, window_start, items, items_sorted, highlights,
                   sections, hashVars, summVars, collectVars, lockVars, subscribers, sub_i, summaries_by_email, responses, sent>>

\* smtplib raises (emailer_gmail.py:36-38); nothing catches it either
DigestSmtpError ==
    /\ dpc = "sending"
    /\ summaries_by_email[subscribers[sub_i].email].subject.kind # "bad"
    /\ dpc' = "done" /\ exit_code' = 1
    /\ UNCHANGED <<storeVars, cfg, window_start, items, items_sorted, highlights,
                   sections, hashVars, summVars, collectVars, lockVars, subscribers, sub_i, summaries_by_email, responses, sent>>

ItemHearing ==
    [source |-> "granicus_rss", title |-> TitleHearing, url |-> UrlA,
     published_at |-> NULL, content_hash |-> make_content_hash(TitleHearing, UrlA)]

ItemRentBill ==
    [source |-> "google_alerts", title |-> TitleRentBill, url |-> UrlAUpper,
     published_at |-> NULL, content_hash |-> make_content_hash(TitleRentBill, UrlAUpper)]

UrlB == <<"y",".","i","o">>
UrlC == <<"z",".","i","o">>

ItemCommittee ==
    [source |-> "council_rss", title |-> TitleCommittee, url |-> UrlB,
     published_at |-> NULL, content_hash |-> make_content_hash(TitleCommittee, UrlB)]

ItemVideo ==
    [source |-> "youtube", title |-> TitleHearingLoud, url |-> UrlC,
     published_at |-> NULL, content_hash |-> make_content_hash(TitleHearingLoud, UrlC)]

\* Stores a digest run starts from: an empty one, and ones that collectors
\* filled on the first day
DigestStores ==
    {<<>>,
     <<NewRow(ItemCommittee, [d |-> 0, s |-> 0])>>,
     <<NewRow(ItemHearing, [d |-> 0, s |-> 0]), NewRow(ItemRentBill, [d |-> 0, s |-> 0])>>,
     <<NewRow(ItemVideo, [d |-> 0, s |-> 0]), NewRow(ItemCommittee, [d |-> 0, s |-> 1]),
       NewRow(ItemRentBill, [d |-> 0, s |-> 2]), NewRow(ItemHearing, [d |-> 0, s |-> 3])>>}

InitDigest ==
    /\ store \in DigestStores
    /\ now = [d |-> 1, s |-> 0]
    /\ call = NoCall
    /\ DigestIdle
    /\ NoFunctionCall
    /\ CollectIdle
    /\ LockIdle

NextDigest ==
    \/ DigestRank
    \/ \E subs \in SubscriberLists : DigestSubscribers(subs)
    \/ \E resp \in DigestResponses \cup {NoResponse} : DigestSummarized(resp)
    \/ \E resp \in DigestResponses : DigestSummaryError(resp)
    \/ DigestSend
    \/ DigestSendTypeError
    \/ DigestSmtpError

SpecDigest == InitDigest /\ [][NextDigest]_vars

\* The structure the generation step is asked for: an object with a string
\* headline and a list of bullets, each an object with a string text and a
\* list of sources
WellFormed(resp) ==
    /\ resp.kind = "object"
    /\ resp.headline.tag = "str"
    /\ resp.bullets.tag = "list"
    /\ \A i \in DOMAIN resp.bullets.val :
          /\ resp.bullets.val[i].tag = "obj"
          /\ resp.bullets.val[i].text.tag = "str"
          /\ resp.bullets.val[i].sources.tag = "list"

\* C10: an email is sent only to a recipient whose summary came from a
\* response of the expected structure, and under the generated headline,
\* never the fallback subject.
C10_MalformedNeverSent ==
    \A i \in DOMAIN sent :
        LET resp == responses[sent[i].to]
        IN resp # NoResponse =>
              /\ WellFormed(resp)
              /\ sent[i].subject.kind = "headline"

\* C11: when a run ends on a failure for one recipient, every other recipient
\* whose summary was generated with a sendable subject has been sent their
\* digest.
C11_OthersStillReceive ==
    (dpc = "done" /\ exit_code = 1) =>
        \A e \in DOMAIN summaries_by_email :
            (e # subscribers[sub_i].email /\ summaries_by_email[e].subject.kind # "bad")
                => \E i \in DOMAIN sent : sent[i].to = e

-----------------------------------------------------------------------------
(* Claims about highlights and sections *)

\* C15: highlights is the prefix of the ranked list of length
\* min(max_highlights, number of in-window items), so no item outside
\* highlights precedes a highlight in the ranked order.
C15_HighlightsArePrefix ==
    dpc # "idle" =>
        /\ Len(highlights) = Min(cfg.max_items, Len(items))
        /\ \A i \in DOMAIN highlights : highlights[i] = items_sorted[i]
        /\ \A i, j \in DOMAIN items_sorted :
              (i < j /\ j \in DOMAIN highlights) => i \in DOMAIN highlights

\* Two highlights out of four ranked items: the second is a news mention,
\* while an item of the official section is ranked third and left out.
C15_Witness ==
    /\ dpc = "ranked"
    /\ Len(items_sorted) = 4 /\ Len(highlights) = 2
    /\ highlights[2].source = "google_alerts"
    /\ items_sorted[3].source = "council_rss"

\* C16: every ranked item is in exactly one section, the one its source
\* names, and each section lists its items in ranked order.
C16_SectionsPartition ==
    dpc # "idle" =>
        /\ DOMAIN sections = SectionNames
        /\ \A i \in DOMAIN items_sorted :
              LET src == items_sorted[i].source
                  home == CASE src \in {"granicus_rss", "council_rss"} -> SectionOfficial
                            [] src = "youtube" -> SectionVideos
                            [] OTHER -> SectionOther
              IN \A n \in SectionNames :
                    (\E k \in DOMAIN sections[n] : sections[n][k] = items_sorted[i])
                        <=> n = home
        /\ \A n \in SectionNames :
              /\ \A k \in DOMAIN sections[n] :
                    \E i \in DOMAIN items_sorted : items_sorted[i] = sections[n][k]
              /\ \A k, l \in DOMAIN sections[n] :
                    k < l => \E i, j \in DOMAIN items_sorted :
                                /\ i < j
                                /\ items_sorted[i] = sections[n][k]
                                /\ items_sorted[j] = sections[n][l]
        /\ Len(sections[SectionOfficial]) + Len(sections[SectionVideos])
             + Len(sections[SectionOther]) = Len(items_sorted)

\* Four ranked items: two in the official section, granicus_rss before
\* council_rss as ranked, one video and one news mention.
C16_Witness ==
    /\ dpc = "ranked"
    /\ Len(items_sorted) = 4
    /\ Len(sections[SectionOfficial]) = 2
    /\ sections[SectionOfficial][1].source = "granicus_rss"
    /\ sections[SectionOfficial][2].source = "council_rss"
    /\ Len(sections[SectionVideos]) = 1
    /\ Len(sections[SectionOther]) = 1

-----------------------------------------------------------------------------
(* Truncation of the deduplicated bullets *)

\* K is the set of indexes the greedy pass over B keeps: an index is left
\* out exactly when its bullet has no text or nearly duplicates an earlier
\* kept one
GreedyKept(B, K) ==
    \A i \in DOMAIN B :
        i \notin K <=>
            \/ B[i].text = <<>>
            \/ \E k \in K : k < i /\ NearDuplicates(B[i], B[k])

\* C17: the final bullets are the first max_bullets of the deduplicated
\* list, so there are at most max_bullets of them and a bullet removed by the
\* deduplication takes none of the places.
C17_TruncationAfterDedup ==
    (s_out # NULL /\ s_out.status = "ok" /\ s_in.n > 0) =>
        /\ Len(s_out.bullets) <= s_in.max_bullets
        /\ \E K \in SUBSET DOMAIN DedupeInput :
              /\ GreedyKept(DedupeInput, K)
              /\ Len(s_out.bullets) = Min(s_in.max_bullets, Cardinality(K))
              /\ \A i \in DOMAIN s_out.bullets :
                    s_out.bullets[i] = PickFrom(DedupeInput, K, 1)[i]

\* Three bullets and two places: the second bullet is removed as a near
\* duplicate of the first, and the third takes the second place.
C17_Witness ==
    /\ s_out # NULL /\ s_out.status = "ok" /\ s_in.n > 0
    /\ s_in.max_bullets = 2
    /\ Len(DedupeInput) = 3
    /\ NearDuplicates(DedupeInput[2], DedupeInput[1])
    /\ s_out.bullets = <<DedupeInput[1], DedupeInput[3]>>

-----------------------------------------------------------------------------
(* The adapters (collect.py, collect_youtube_live.py) *)

\* collect.main:327
OfficialSources == {"granicus_rss", "granicus_captions", "council_rss", "youtube"}

NoTitle == <<"(","n","o"," ","t","i","t","l","e",")">>

\* A date as a source gives it: none (a missing or empty field), one the
\* parser accepts, or text it rejects
NoDate == [kind |-> "none", t |-> [d |-> 0, s |-> 0], text |-> <<>>]
GoodDate == [kind |-> "date", t |-> [d |-> 0, s |-> 0], text |-> <<"1","/","1">>]
JunkDate == [kind |-> "junk", t |-> [d |-> 0, s |-> 0], text |-> <<"T","B","D">>]

\* utils.to_iso_datetime on any value, called at the instant t: the parsed
\* date in UTC, or the current time when the parser rejects the value
to_iso_datetime_or_now(raw, t) ==
    IF raw.kind = "date" THEN to_iso_datetime(raw.t) ELSE isoformat(t)

\* to_iso_datetime(raw) if raw else None (collect.py:122, 267;
\* collect_youtube_live.py:54)
published_at_of(raw, t) ==
    IF raw.kind = "none" THEN NULL ELSE to_iso_datetime_or_now(raw, t)

\* existing_hashes = None
NoHashes == [used |-> FALSE, set |-> {}]

\* An entry that yields no item
Dropped == NULL

\* text.strip() or "(no title)"
TitleOrPlaceholder(text) == IF Strip(text) = <<>> THEN NoTitle ELSE Strip(text)

\* The dict an adapter builds
Draft(source, id, title, url, published_at, summary) ==
    [source |-> source, source_item_id |-> id, title |-> title, url |-> url,
     published_at |-> published_at, summary |-> summary,
     content_hash |-> make_content_hash(title, url)]

\* The link parse_feed stores (collect.py:133-143): the DownloadFile link of
\* a Granicus summary when there is one, what a Google Alerts link redirects
\* to, the entry's own link otherwise
FinalLink(source, e) ==
    IF source = "granicus_rss" /\ e.download # <<>> THEN e.download
    ELSE IF source = "google_alerts" /\ e.redirect # <<>> THEN e.redirect
    ELSE Strip(e.link)

\* parse_feed without the check of collect.py:118-119
parse_feed_entry_keeping_linkless(source, e, t) ==
    Draft(source, e.id, TitleOrPlaceholder(e.title), FinalLink(source, e),
          published_at_of(e.published, t), e.summary)

\* One turn of the loop of parse_feed (collect.py:114-156), at the instant t
parse_feed_entry(source, e, t) ==
    IF Strip(e.link) = <<>> THEN Dropped
    ELSE Draft(source, e.id, TitleOrPlaceholder(e.title), FinalLink(source, e),
               published_at_of(e.published, t), e.summary)

CaptionsSuffix == <<" ","(","C","a","p","t","i","o","n","s",")">>

\* collect.py:280-282
captions_title(row) ==
    row.name \o CaptionsSuffix
        \o (IF row.date.text # <<>> THEN <<" ","-"," ">> \o row.date.text ELSE <<>>)

\* One turn of the loop of parse_granicus_captions (collect.py:259-302): a
\* row with too few cells or no captions link has an empty caption_url;
\* caption_text is what _fetch_caption_text returns for the row's link, and
\* fetched tells whether it was called
parse_captions_row(row, hashes, t) ==
    LET title == captions_title(row)
        hash == make_content_hash(title, row.caption_url)
    IN IF row.caption_url = <<>> THEN [item |-> Dropped, fetched |-> FALSE]
       ELSE IF hashes.used /\ hash \in hashes.set THEN [item |-> Dropped, fetched |-> FALSE]
       ELSE IF row.caption_text = <<>> THEN [item |-> Dropped, fetched |-> TRUE]
       ELSE [item |-> Draft("granicus_captions", row.clip_id, title, row.caption_url,
                            published_at_of(row.date, t), row.caption_text),
             fetched |-> TRUE]

\* "https://www.youtube.com/watch?v="
YoutubeWatch ==
    <<"h","t","t","p","s",":","/","/","w","w","w",".","y","o","u","t","u","b","e",
      ".","c","o","m","/","w","a","t","c","h","?","v","=">>

\* collect_youtube_live.youtube_item_to_db_item; the ValueError for a missing
\* videoId is caught by main, which skips the item
youtube_item_to_db_item(source, it, t) ==
    IF it.videoId = <<>> THEN Dropped
    ELSE Draft(source, it.videoId, TitleOrPlaceholder(it.title), YoutubeWatch \o it.videoId,
               published_at_of(it.publishedAt, t), Strip(it.description))

\* collect.matches_keywords
matches_keywords(text, keywords) ==
    \/ keywords = <<>>
    \/ \E n \in DOMAIN keywords : IsSubstring(Lower(keywords[n]), Lower(text))

\* collect.main:345-348: whether the loop goes on to insert the item
PassesFilter(source, item, keywords) ==
    IF source \notin OfficialSources /\ keywords # <<>>
    THEN matches_keywords(item.title \o <<" ">> \o item.summary, keywords)
    ELSE TRUE

\* db.get_existing_hashes
get_existing_hashes(table, source) ==
    [used |-> TRUE,
     set |-> {table[i].content_hash : i \in {k \in DOMAIN table : table[k].source = source}}]

\* existing_hashes left as it was after an insert
hashes_after_insert_unchanged(hashes, inserted, item) == hashes

\* collect.main:350-352
hashes_after_insert(hashes, inserted, item) ==
    IF inserted /\ hashes.used
    THEN [used |-> TRUE, set |-> hashes.set \cup {item.content_hash}]
    ELSE hashes

-----------------------------------------------------------------------------
(* Collector runs (collect.main, collect_youtube_live.main) *)

TextRentNews == <<"r","e","n","t"," ","u","p">>

\* Entries of a feed as feedparser gives them
EntryHearing ==
    [title |-> TitleHearing, link |-> UrlA, published |-> GoodDate, summary |-> <<>>,
     id |-> <<"g","1">>, download |-> <<>>, redirect |-> <<>>]
EntryBlankTitle ==
    [title |-> <<" ">>, link |-> UrlB, published |-> JunkDate, summary |-> TextRentNews,
     id |-> <<>>, download |-> <<>>, redirect |-> UrlC]
EntryNoLink ==
    [title |-> TitleRentBill, link |-> <<" ">>, published |-> NoDate, summary |-> <<>>,
     id |-> <<"g","3">>, download |-> <<>>, redirect |-> <<>>]
EntryCommittee ==
    [title |-> TitleCommittee, link |-> UrlAUpper, published |-> NoDate, summary |-> <<>>,
     id |-> <<"g","4">>, download |-> UrlC, redirect |-> <<>>]
FeedEntries == {EntryHearing, EntryBlankTitle, EntryNoLink, EntryCommittee}

UrlCaptions == <<"c",".","i","o">>
UrlCaptions2 == <<"d",".","i","o">>
TextCaptions == <<"a","y","e">>

\* Rows of the captions table
RowCouncil ==
    [name |-> <<"C","c">>, date |-> NoDate, caption_url |-> UrlCaptions,
     clip_id |-> <<"7">>, caption_text |-> TextCaptions]
RowNoText ==
    [name |-> <<"C","c">>, date |-> JunkDate, caption_url |-> UrlCaptions2,
     clip_id |-> <<>>, caption_text |-> <<>>]
RowNoLink ==
    [name |-> <<"C","c">>, date |-> GoodDate, caption_url |-> <<>>,
     clip_id |-> <<>>, caption_text |-> <<>>]
CaptionRows == {RowCouncil, RowNoText, RowNoLink}

\* Items of a search listing
VideoLive ==
    [videoId |-> <<"v","1">>, title |-> <<"L","i","v","e">>, publishedAt |-> GoodDate,
     description |-> <<>>]
VideoNoId ==
    [videoId |-> <<>>, title |-> <<"L","i","v","e">>, publishedAt |-> GoodDate,
     description |-> <<>>]
VideoJunkDate ==
    [videoId |-> <<"v","2">>, title |-> <<>>, publishedAt |-> JunkDate,
     description |-> TextRentNews]
YoutubeItems == {VideoLive, VideoNoId, VideoJunkDate}

\* Most entries of one payload
MaxEntries == 2

SeqsUpTo(S, n) == UNION {[1..k -> S] : k \in 0..n}

\* What a successful fetch returns: the entries of a feed, the rows of the
\* captions table, the items of a listing
Payloads ==
    [kind : {"feed"}, entries : SeqsUpTo(FeedEntries, MaxEntries)]
    \cup [kind : {"captions"}, entries : SeqsUpTo(CaptionRows, MaxEntries)]
    \cup [kind : {"listing"}, entries : SeqsUpTo(YoutubeItems, MaxEntries)]

\* What a collector run starts with: the program, filters.dc_council_keywords
\* and the batch (the feeds' source tags, or youtube_api.event_types)
CollectConfigs ==
    [prog : {"collect"}, keywords : {<<>>, <<KwRent>>},
     batch : {<<"granicus_rss", "google_alerts">>,
              <<"google_alerts", "granicus_captions">>,
              <<"granicus_captions", "granicus_captions">>}]
    \cup [prog : {"youtube"}, keywords : {<<>>, <<KwRent>>},
          batch : {<<"live", "upcoming">>, <<"completed", "upcoming">>}]

\* The unit of the batch the run is at
Unit == ccfg.batch[feed_i]

\* The payload kind of a unit
KindOf(prog, unit) ==
    IF prog = "youtube" THEN "listing"
    ELSE IF unit = "granicus_captions" THEN "captions" ELSE "feed"

\* The source tag of the items of a unit (collect_youtube_live.py:109)
SourceOf(prog, unit) ==
    IF prog = "youtube"
    THEN (IF unit = "live" THEN "youtube_live" ELSE "youtube_upcoming")
    ELSE unit

\* The loop over the batch moves to the next unit, or the run returns 0
NextUnit ==
    /\ feed_i' = feed_i + 1
    /\ cpc' = IF feed_i + 1 > Len(ccfg.batch) THEN "done" ELSE "feed"
    /\ pending' = <<>>

\* A collector process starts
CollectStart(c) ==
    /\ cpc = "idle" /\ ccfg = NULL
    /\ ccfg' = c
    /\ feed_i' = 1 /\ cpc' = "feed"
    /\ UNCHANGED <<storeVars, pending, existing_hashes, last, rankVars, hashVars,
                   summVars, mailVars, lockVars>>

\* collect_youtube_live.main:105-107
SkipUnsupported ==
    /\ cpc = "feed" /\ ccfg.prog = "youtube"
    /\ Unit \notin {"live", "upcoming"}
    /\ NextUnit
    /\ UNCHANGED <<storeVars, ccfg, existing_hashes, last, rankVars, hashVars,
                   summVars, mailVars, lockVars>>

\* The fetch of a unit succeeds: fetch_feed, the captions page, or
\* fetch_youtube_search; for a captions feed collect.main has read the known
\* hashes first (collect.py:337-340)
Fetch(payload) ==
    /\ cpc = "feed"
    /\ ccfg.prog = "youtube" => Unit \in {"live", "upcoming"}
    /\ payload.kind = KindOf(ccfg.prog, Unit)
    /\ pending' = payload.entries
    /\ cpc' = "entries"
    /\ existing_hashes' = IF payload.kind = "captions"
                          THEN get_existing_hashes(store, Unit) ELSE NoHashes
    /\ UNCHANGED <<storeVars, ccfg, feed_i, last, rankVars, hashVars, summVars, mailVars, lockVars>>

\* The fetch of a feed or of the captions page raises: parse_feed and
\* parse_granicus_captions print and return (collect.py:105-109, 246-251)
FetchFailed ==
    /\ cpc = "feed" /\ ccfg.prog = "collect"
    /\ NextUnit
    /\ existing_hashes' = IF Unit = "granicus_captions"
                          THEN get_existing_hashes(store, Unit) ELSE NoHashes
    /\ UNCHANGED <<storeVars, ccfg, last, rankVars, hashVars, summVars, mailVars, lockVars>>

\* fetch_youtube_search raises (collect_youtube_live.py:43): main has no
\* handler around the call of line 112, the process ends with a traceback
ListingFailed ==
    /\ cpc = "feed" /\ ccfg.prog = "youtube"
    /\ Unit \in {"live", "upcoming"}
    /\ cpc' = "crashed"
    /\ UNCHANGED <<storeVars, ccfg, feed_i, pending, existing_hashes, last, rankVars,
                   hashVars, summVars, mailVars, lockVars>>

\* What the adapter of the unit makes of one entry
Adapted(entry) ==
    LET source == SourceOf(ccfg.prog, Unit)
        kind == KindOf(ccfg.prog, Unit)
    IN IF kind = "feed"
       THEN [item |-> parse_feed_entry(source, entry, now), fetched |-> FALSE]
       ELSE IF kind = "captions"
       THEN parse_captions_row(entry, existing_hashes, now)
       ELSE [item |-> youtube_item_to_db_item(source, entry, now), fetched |-> FALSE]

\* One turn of the loop over a unit's entries: the adapter's turn, then
\* collect.main:344-353 or collect_youtube_live.main:119-128
HandleEntry ==
    /\ cpc = "entries" /\ pending # <<>>
    /\ LET entry == Head(pending)
           a == Adapted(entry)
           passes == /\ a.item # Dropped
                     /\ ccfg.prog = "collect" =>
                           PassesFilter(Unit, a.item, ccfg.keywords)
           inserted == passes /\ ~UniqueViolation(store, a.item)
       IN /\ IF passes THEN insert_item(a.item) ELSE UNCHANGED <<store, call>>
          /\ existing_hashes' =
                IF passes THEN hashes_after_insert(existing_hashes, inserted, a.item)
                ELSE existing_hashes
          /\ last' = [entry |-> entry, kind |-> KindOf(ccfg.prog, Unit), item |-> a.item,
                      fetched |-> a.fetched, inserted |-> inserted]
    /\ pending' = Tail(pending)
    /\ UNCHANGED <<now, ccfg, cpc, feed_i, rankVars, hashVars, summVars, mailVars, lockVars>>

\* The unit's entries are exhausted
UnitDone ==
    /\ cpc = "entries" /\ pending = <<>>
    /\ NextUnit
    /\ UNCHANGED <<storeVars, ccfg, existing_hashes, last, rankVars, hashVars,
                   summVars, mailVars, lockVars>>

\* The captions item of RowCouncil as an earlier run stored it
StoredCouncilCaptions ==
    NewRow(parse_captions_row(RowCouncil, NoHashes, [d |-> 0, s |-> 0]).item, [d |-> 0, s |-> 0])

\* Stores a collector run starts from
CollectStores ==
    {<<>>, <<NewRow(ItemHearing, [d |-> 0, s |-> 0]), StoredCouncilCaptions>>}

InitCollect ==
    /\ store \in CollectStores
    /\ now = [d |-> 1, s |-> 0]
    /\ call = NoCall
    /\ DigestIdle
    /\ NoFunctionCall
    /\ CollectIdle
    /\ LockIdle

NextCollect ==
    \/ \E c \in CollectConfigs : CollectStart(c)
    \/ SkipUnsupported
    \/ \E payload \in Payloads : Fetch(payload)
    \/ FetchFailed
    \/ ListingFailed
    \/ HandleEntry
    \/ UnitDone

SpecCollect == InitCollect /\ [][NextCollect]_vars

-----------------------------------------------------------------------------
(* Claims about the collectors *)

\* C12: a run that a failure ends has no feed or listing of its batch left
\* unfetched.
C12_FailureNeverStopsRun ==
    cpc \in {"done", "crashed"} => feed_i >= Len(ccfg.batch)

\* The sources that bypass the keyword filter
OfficialAllowList == {"granicus_rss", "granicus_captions", "council_rss", "youtube"}

\* C13: a stored item whose source is not official has a configured keyword
\* as a case-insensitive substring of its title and body.
C13_KeywordPrefilter ==
    (last # NULL /\ last.inserted /\ last.item.source \notin OfficialAllowList) =>
        \E n \in DOMAIN ccfg.keywords :
            IsSubstring(Lower(ccfg.keywords[n]),
                        Lower(last.item.title \o <<" ">> \o last.item.summary))

\* The entry processed last has no link (a feed entry's link, a row's
\* captions link, a listing item's video id, from which its url is made)
LastHasNoLink ==
    CASE last.kind = "feed" -> Strip(last.entry.link) = <<>>
      [] last.kind = "captions" -> last.entry.caption_url = <<>>
      [] last.kind = "listing" -> last.entry.videoId = <<>>

\* The entry processed last has no native identifier
LastHasNoIdentifier ==
    CASE last.kind = "feed" -> last.entry.id = <<>>
      [] last.kind = "captions" -> last.entry.clip_id = <<>>
      [] last.kind = "listing" -> last.entry.videoId = <<>>

\* The entry processed last has no title
LastHasNoTitle ==
    CASE last.kind = "feed" -> Strip(last.entry.title) = <<>>
      [] last.kind = "captions" -> FALSE
      [] last.kind = "listing" -> Strip(last.entry.title) = <<>>

C18_KnownHashSkipsFetch ==
    [][(/\ cpc = "entries" /\ pending # <<>> /\ pending' = Tail(pending)
        /\ last'.kind = "captions" /\ last'.fetched)
          => \A i \in DOMAIN store :
                store[i].source = "granicus_captions" =>
                   store[i].content_hash #
                      make_content_hash(captions_title(Head(pending)),
                                        Head(pending).caption_url)]_vars

\* The first captions feed of a run that started on an empty store: a row
\* was stored, and a later row of the same page with the same hash was
\* skipped without a fetch.
C18_Witness ==
    /\ cpc = "entries" /\ feed_i = 1
    /\ last # NULL /\ last.kind = "captions"
    /\ last.entry.caption_url # <<>> /\ ~last.fetched
    /\ Len(store) = 1
    /\ store[1].source = "granicus_captions"
    /\ store[1].content_hash =
          make_content_hash(captions_title(last.entry), last.entry.caption_url)

\* The date the entry processed last came with
LastDate ==
    CASE last.kind = "feed" -> last.entry.published
      [] last.kind = "captions" -> last.entry.date
      [] last.kind = "listing" -> last.entry.publishedAt

\* C19: an item made of an entry whose date is missing, empty or not
\* parseable has no published_at.
C19_NoDateNoPublishedAt ==
    (last # NULL /\ last.item # Dropped /\ LastDate.kind \in {"none", "junk"}) =>
        last.item.published_at = NULL

-----------------------------------------------------------------------------
(* Order of generation and sending in a digest run *)

\* C22: a digest run sends its first email only after the summary of every
\* subscriber is generated; while summaries are being generated nothing has
\* been sent, and a run that a failed generation ends has exit status 1 and
\* has sent no email.
C22_SummariesBeforeFirstSend ==
    [][/\ dpc' = "summarizing" => sent' = <<>>
       /\ sent' # sent =>
             /\ dpc = "sending"
             /\ \A i \in DOMAIN subscribers :
                   subscribers[i].email \in DOMAIN summaries_by_email
       /\ (dpc = "summarizing" /\ dpc' = "done") =>
             (exit_code' = 1 /\ sent' = <<>>)]_vars

\* The run ended with status 1 at the second of two subscribers, whose
\* summary failed after the first one's had been generated, and no email
\* was sent.
C22_Witness ==
    /\ dpc = "done" /\ exit_code = 1
    /\ Len(subscribers) = 2 /\ sub_i = 2
    /\ subscribers[1].email \in DOMAIN summaries_by_email
    /\ subscribers[2].email \notin DOMAIN summaries_by_email
    /\ sent = <<>>

-----------------------------------------------------------------------------
(* Two collector processes on one database: db.insert_item over SQLite's
   write lock *)

\* The feed collector and the live-listing collector, each with its own
\* connection (collect.py:323, collect_youtube_live.py:99)
Procs == {"collect", "youtube_live"}

\* Titles and links the two collectors meet: the second has the content
\* hash of the first under another url, the third the url of the first
\* under another hash, the fourth shares nothing with them
Identities ==
    {[title |-> TitleHearing, url |-> UrlA],
     [title |-> TitleHearing, url |-> UrlAUpper],
     [title |-> TitleRentBill, url |-> UrlA],
     [title |-> TitleCommittee, url |-> UrlB]}

\* The item a process passes to insert_item
ItemOf(p, k) ==
    Draft(IF p = "collect" THEN "google_alerts" ELSE "youtube_live",
          NULL, k.title, k.url, NULL, <<>>)

\* Most insert_item calls of the two processes together
MaxCalls == 3

CallsMade == Len(conns["collect"].made) + Len(conns["youtube_live"].made)

\* A call of insert_item that is over: the item and how the call ended
Made(item, ret) == [item |-> item, ret |-> ret]

\* cur.execute(INSERT ...) of insert_item (db.py:63-78). The sqlite3 module
\* begins a transaction before the INSERT, and the INSERT takes the
\* database's write lock before the unique indexes are checked. On a
\* collision IntegrityError is raised and insert_item returns False
\* (db.py:81-82) without a rollback: the transaction stays open and the
\* connection keeps the lock.
insert_item_execute(p, item) ==
    /\ conns[p].pc = "idle"
    /\ db_lock \in {"none", p}
    /\ db_lock' = p
    /\ IF UniqueViolation(store, item)
       THEN conns' = [conns EXCEPT ![p].made = Append(@, Made(item, "false"))]
       ELSE conns' = [conns EXCEPT ![p].pc = "executed", ![p].item = item]

\* conn.commit() and return True (db.py:79-80): the row becomes visible and
\* the lock is released
insert_item_commit(p) ==
    /\ conns[p].pc = "executed"
    /\ store' = Append(store, NewRow(conns[p].item, now))
    /\ db_lock' = "none"
    /\ conns' = [conns EXCEPT ![p].pc = "idle", ![p].item = NULL,
                              ![p].made = Append(@, Made(conns[p].item, "true"))]

\* The INSERT finds the write lock held by the other connection until the
\* busy timeout of sqlite3.connect ends: sqlite3.OperationalError, which
\* insert_item does not catch (db.py:81) and neither main does
\* (collect.py:349, collect_youtube_live.py:126); the process ends
insert_item_locked(p, item) ==
    /\ conns[p].pc = "idle"
    /\ db_lock \notin {"none", p}
    /\ conns' = [conns EXCEPT ![p].pc = "crashed",
                              ![p].made = Append(@, Made(item, "raised"))]

\* A process calls insert_item and the INSERT runs
Execute(p, k) ==
    /\ CallsMade < MaxCalls
    /\ insert_item_execute(p, ItemOf(p, k))
    /\ UNCHANGED <<storeVars, rankVars, hashVars, summVars, mailVars, collectVars>>

Commit(p) ==
    /\ insert_item_commit(p)
    /\ UNCHANGED <<now, call, rankVars, hashVars, summVars, mailVars, collectVars>>

\* A process calls insert_item and the INSERT times out on the lock
Locked(p, k) ==
    /\ CallsMade < MaxCalls
    /\ insert_item_locked(p, ItemOf(p, k))
    /\ UNCHANGED <<storeVars, db_lock, rankVars, hashVars, summVars, mailVars, collectVars>>

\* main returns (collect.py:358-359, collect_youtube_live.py:130-131): the
\* process ends, its open transaction is rolled back and its lock released
ProcExit(p) ==
    /\ conns[p].pc = "idle"
    /\ conns' = [conns EXCEPT ![p].pc = "exited"]
    /\ db_lock' = IF db_lock = p THEN "none" ELSE db_lock
    /\ UNCHANGED <<storeVars, rankVars, hashVars, summVars, mailVars, collectVars>>

\* Both collectors have connected to one database
InitConcurrent ==
    /\ store \in {<<>>, <<NewRow(ItemHearing, [d |-> 0, s |-> 0])>>}
    /\ now = [d |-> 1, s |-> 0]
    /\ call = NoCall
    /\ DigestIdle
    /\ NoFunctionCall
    /\ CollectIdle
    /\ conns = [p \in Procs |-> [pc |-> "idle", item |-> NULL, made |-> <<>>]]
    /\ db_lock = "none"

NextConcurrent ==
    \/ \E p \in Procs, k \in Identities : Execute(p, k)
    \/ \E p \in Procs : Commit(p)
    \/ \E p \in Procs, k \in Identities : Locked(p, k)
    \/ \E p \in Procs : ProcExit(p)

SpecConcurrent == InitConcurrent /\ [][NextConcurrent]_vars

-----------------------------------------------------------------------------
(* Claims about concurrent inserts *)

\* The insert_item calls made so far, by process and position
CallsOf(p) == {<<p, i>> : i \in DOMAIN conns[p].made}

ItemOfCall(c) == conns[c[1]].made[c[2]].item

RetOfCall(c) == conns[c[1]].made[c[2]].ret

\* The two items have a key in common and row r carries it
CarriesSharedKey(r, it1, it2) ==
    \/ it1.url = it2.url /\ r.url = it1.url
    \/ it1.content_hash = it2.content_hash /\ r.content_hash = it1.content_hash

\* C21: of the insert_item calls that two collector processes make with
\* items of one url or of one content hash, at most one returns True; the
\* table never holds two rows of one url or of one content hash; and when
\* both processes have ended, the table holds the row of the url or content
\* hash that an item passed by one process shares with an item passed by
\* the other.
C21_InsertAtomicPerCall ==
    /\ \A c1, c2 \in CallsOf("collect") \cup CallsOf("youtube_live") :
          (/\ c1 # c2
           /\ \/ ItemOfCall(c1).url = ItemOfCall(c2).url
              \/ ItemOfCall(c1).content_hash = ItemOfCall(c2).content_hash)
             => ~(RetOfCall(c1) = "true" /\ RetOfCall(c2) = "true")
    /\ \A i, j \in DOMAIN store :
          i # j => /\ store[i].url # store[j].url
                   /\ store[i].content_hash # store[j].content_hash
    /\ (\A p \in Procs : conns[p].pc \in {"exited", "crashed"}) =>
          \A c1 \in CallsOf("collect"), c2 \in CallsOf("youtube_live") :
             (\/ ItemOfCall(c1).url = ItemOfCall(c2).url
              \/ ItemOfCall(c1).content_hash = ItemOfCall(c2).content_hash)
                => \E i \in DOMAIN store :
                      CarriesSharedKey(store[i], ItemOfCall(c1), ItemOfCall(c2))

=============================================================================
